---- MODULE Spec2Model ----
(***************************************************************************)
(* team-tasks: state-machine model of scripts/task_manager.py.             *)
(*                                                                         *)
(* One project record is kept on disk (variable proj).  Every command is   *)
(* one load / mutate / save invocation; a command that exits with an error *)
(* never reaches save_project, so the stored record is left as loaded.     *)
(* Strings that are timestamps are modelled as sequences: <<>> is the      *)
(* empty string "" and <<t>> is the text _now() formats at second t.       *)
(* The display-only fields (name, goal, workspace, agent, description,     *)
(* perspective) and the display-only commands (status, graph, log, list)   *)
(* read the record and change nothing; they are left out.                  *)
(***************************************************************************)
EXTENDS Integers, Sequences, FiniteSets, TLC

VARIABLES
    proj,     \* the stored project record (the JSON document of the project)
    clock,    \* the wall-clock second the next invocation runs at
    out,      \* what the last invocation reported: command, exit code, notification
    run       \* the invocations in flight: what each has loaded and not yet saved

vars == <<proj, clock, out, run>>

----------------------------------------------------------------------------
(* Bounds of the model and input domains                                   *)

\* invocations run at seconds 1..MaxTime, one invocation per second
MaxTime == 3
\* longest --pipeline / --deps token list an invocation passes
MaxTokens == 2

StageIds == {"x", "y"}
TaskIds == {"a", "b"}
DebaterIds == {"d1", "d2"}
Texts == {"r1"}
Modes == {"linear", "dag", "debate"}

\* a comma-separated argument, as the list of its tokens
TokenLists(S) == UNION {[1..n -> S] : n \in 0..MaxTokens}

----------------------------------------------------------------------------
(* Config and small helpers                                                *)

VALID_STATUSES == <<"pending", "in-progress", "done", "failed", "skipped">>

\* the status argument of update: the five valid statuses and one invalid word
StatusInputs == {VALID_STATUSES[k] : k \in 1..Len(VALID_STATUSES)} \cup {"bogus"}

IsValidStatus(status) == \E k \in 1..Len(VALID_STATUSES) : VALID_STATUSES[k] = status

\* _now(): the timestamp text of the current second
now == <<clock>>

\* [s.strip() for s in arg.split(",") if s.strip()]: blank tokens are dropped
split_ids(tokens) == SelectSeq(tokens, LAMBDA s : s # "")

make_stage(stage_id) ==
    [id |-> stage_id, status |-> "pending", result |-> "",
     assigned_at |-> <<>>, completed_at |-> <<>>]

make_task(task_id, deps) ==
    [id |-> task_id, dependencies |-> deps, status |-> "pending", result |-> "",
     assigned_at |-> <<>>, completed_at |-> <<>>]

\* for i, s in enumerate(items): if s["id"] == target_id: ... break
\* index of the first item carrying the id, 0 when the loop ends without a match
first_match(items, target_id) ==
    IF \E i \in 1..Len(items) : items[i].id = target_id
    THEN CHOOSE i \in 1..Len(items) :
            /\ items[i].id = target_id
            /\ \A j \in 1..(i - 1) : items[j].id # target_id
    ELSE 0

----------------------------------------------------------------------------
(* DAG helpers                                                             *)

\* variant: a dependency counts as satisfied once its task is finished in any way
done_ids_finished(tasks) ==
    {tasks[i].id : i \in {j \in 1..Len(tasks) : tasks[j].status \in {"done", "failed", "skipped"}}}

done_ids(tasks) == {tasks[i].id : i \in {j \in 1..Len(tasks) : tasks[j].status = "done"}}

RECURSIVE ready_loop(_, _, _, _)
ready_loop(tasks, i, done, ready) ==
    IF i > Len(tasks) THEN ready
    ELSE IF tasks[i].status # "pending" THEN ready_loop(tasks, i + 1, done, ready)
    ELSE IF \A k \in 1..Len(tasks[i].dependencies) : tasks[i].dependencies[k] \in done
         THEN ready_loop(tasks, i + 1, done, Append(ready, tasks[i]))
         ELSE ready_loop(tasks, i + 1, done, ready)

compute_ready_tasks(p) == ready_loop(p.tasks, 1, done_ids(p.tasks), <<>>)

ids_of(items) == [i \in 1..Len(items) |-> items[i].id]

\* the dict {t["id"]: t["dependencies"] for t in tasks}: keys in order of first
\* occurrence, the value of a repeated key is the one written last
dict_keys(tasks) ==
    LET idx == {i \in 1..Len(tasks) : \A j \in 1..(i - 1) : tasks[j].id # tasks[i].id}
        f[i \in 0..Len(tasks)] ==
            IF i = 0 THEN <<>>
            ELSE IF i \in idx THEN Append(f[i - 1], tasks[i].id) ELSE f[i - 1]
    IN f[Len(tasks)]

\* tasks.get(node, [])
dict_get(tasks, node) ==
    IF \E i \in 1..Len(tasks) : tasks[i].id = node
    THEN LET last == CHOOSE i \in 1..Len(tasks) :
                        /\ tasks[i].id = node
                        /\ \A j \in (i + 1)..Len(tasks) : tasks[j].id # node
         IN tasks[last].dependencies
    ELSE <<>>

\* dfs(node) with its shared visited / stack / cycles, threaded through as st;
\* st.ret is the value dfs returns
RECURSIVE dfs(_, _, _), dfs_loop(_, _, _, _, _)
dfs(tasks, node, st) ==
    dfs_loop(tasks, node, dict_get(tasks, node), 1,
             [st EXCEPT !.visited = @ \cup {node}, !.stack = @ \cup {node}])

dfs_loop(tasks, node, deps, i, st) ==
    IF i > Len(deps)
    THEN [st EXCEPT !.stack = @ \ {node}, !.ret = FALSE]
    ELSE IF deps[i] \notin st.visited
         THEN LET r == dfs(tasks, deps[i], st)
              IN IF r.ret THEN r ELSE dfs_loop(tasks, node, deps, i + 1, r)
         ELSE IF deps[i] \in st.stack
              THEN [st EXCEPT !.cycles = Append(@, <<node, deps[i]>>), !.ret = TRUE]
              ELSE dfs_loop(tasks, node, deps, i + 1, st)

RECURSIVE roots_loop(_, _, _, _)
roots_loop(tasks, keys, i, st) ==
    IF i > Len(keys) THEN st
    ELSE IF keys[i] \notin st.visited
         THEN roots_loop(tasks, keys, i + 1, dfs(tasks, keys[i], st))
         ELSE roots_loop(tasks, keys, i + 1, st)

\* the list of "<node> -> <dep>" descriptors, each modelled as the pair <<node, dep>>
detect_cycles(p) ==
    roots_loop(p.tasks, dict_keys(p.tasks), 1,
               [visited |-> {}, stack |-> {}, cycles |-> <<>>, ret |-> FALSE]).cycles

----------------------------------------------------------------------------
(* Commands: the in-memory computation of each handler                     *)

Report(cmd, code, note, cycles) ==
    [cmd |-> cmd, code |-> code, note |-> note, cycles |-> cycles]

\* the record cmd_init builds for a mode and a --pipeline argument
init_project(mode, pipeline) ==
    IF mode = "linear"
    THEN [mode |-> mode,
          stages |-> [i \in 1..Len(split_ids(pipeline)) |-> make_stage(split_ids(pipeline)[i])],
          current_stage |-> 0]
    ELSE IF mode = "dag"
    THEN [mode |-> mode, tasks |-> <<>>]
    ELSE [mode |-> mode, debaters |-> <<>>, rounds |-> <<>>, question |-> "q"]

\* variant: assigned_at is written only while it is still empty
stamp_once(item, status, t) ==
    IF status = "in-progress"
    THEN [item EXCEPT !.status = status,
                      !.assigned_at = IF item.assigned_at = <<>> THEN t ELSE @]
    ELSE IF status \in {"done", "failed", "skipped"}
    THEN [item EXCEPT !.status = status, !.completed_at = t]
    ELSE [item EXCEPT !.status = status]

\* the timestamp side effect of writing a status into a stage or task
stamp(item, status, t) ==
    IF status = "in-progress"
    THEN [item EXCEPT !.status = status, !.assigned_at = t]
    ELSE IF status \in {"done", "failed", "skipped"}
    THEN [item EXCEPT !.status = status, !.completed_at = t]
    ELSE [item EXCEPT !.status = status]

\* variant: a stage marked done moves the cursor behind it wherever the cursor is
update_linear_anywhere(p, target_id, status, t) ==
    LET i == first_match(p.stages, target_id) IN
    IF i = 0 THEN [proj |-> p, code |-> 1, note |-> <<>>]
    ELSE LET q == [p EXCEPT !.stages[i] = stamp(@, status, t)]
             advance == status = "done"
         IN [proj |-> IF advance THEN [q EXCEPT !.current_stage = i] ELSE q,
             code |-> 0,
             note |-> IF advance /\ i < Len(p.stages) THEN <<p.stages[i + 1].id>> ELSE <<>>]

\* variant: a skipped stage at the cursor advances it as a done one does
update_linear_skip(p, target_id, status, t) ==
    LET i == first_match(p.stages, target_id) IN
    IF i = 0 THEN [proj |-> p, code |-> 1, note |-> <<>>]
    ELSE LET q == [p EXCEPT !.stages[i] = stamp(@, status, t)]
             advance == status \in {"done", "skipped"} /\ i - 1 = p.current_stage
         IN [proj |-> IF advance THEN [q EXCEPT !.current_stage = i] ELSE q,
             code |-> 0,
             note |-> IF advance /\ i < Len(p.stages) THEN <<p.stages[i + 1].id>> ELSE <<>>]

\* cmd_update between load_project and save_project: the record in memory, the
\* exit code (1: sys.exit(1) was reached, nothing is saved) and the notification
update_linear(p, target_id, status, t) ==
    LET i == first_match(p.stages, target_id) IN
    IF i = 0 THEN [proj |-> p, code |-> 1, note |-> <<>>]
    ELSE LET q == [p EXCEPT !.stages[i] = stamp(@, status, t)]
             \* enumerate() counts from 0: the stage at position i has index i - 1
             advance == status = "done" /\ i - 1 = p.current_stage
         IN [proj |-> IF advance THEN [q EXCEPT !.current_stage = i] ELSE q,
             code |-> 0,
             note |-> IF advance /\ i < Len(p.stages) THEN <<p.stages[i + 1].id>> ELSE <<>>]

\* variant: the unlocked tasks are computed on the record as loaded
update_dag_stale(p, target_id, status, t) ==
    LET i == first_match(p.tasks, target_id) IN
    IF i = 0 THEN [proj |-> p, code |-> 1, note |-> <<>>]
    ELSE LET q == [p EXCEPT !.tasks[i] = stamp(@, status, t)]
         IN [proj |-> q,
             code |-> 0,
             note |-> IF status = "done" THEN ids_of(compute_ready_tasks(p)) ELSE <<>>]

update_dag(p, target_id, status, t) ==
    LET i == first_match(p.tasks, target_id) IN
    IF i = 0 THEN [proj |-> p, code |-> 1, note |-> <<>>]
    ELSE LET q == [p EXCEPT !.tasks[i] = stamp(@, status, t)]
         IN [proj |-> q,
             code |-> 0,
             note |-> IF status = "done" THEN ids_of(compute_ready_tasks(q)) ELSE <<>>]

\* variant: the status word is written without the VALID_STATUSES test
update_project_unchecked(p, target_id, status, t) ==
    IF p.mode = "linear" THEN update_linear(p, target_id, status, t)
    ELSE IF p.mode = "dag" THEN update_dag(p, target_id, status, t)
    ELSE [proj |-> p, code |-> 1, note |-> <<>>]

update_project(p, target_id, status, t) ==
    IF ~IsValidStatus(status) THEN [proj |-> p, code |-> 1, note |-> <<>>]
    ELSE IF p.mode = "linear" THEN update_linear(p, target_id, status, t)
    ELSE IF p.mode = "dag" THEN update_dag(p, target_id, status, t)
    ELSE [proj |-> p, code |-> 1, note |-> <<>>]

\* items = proj.get("stages" if mode == "linear" else "tasks", [])
result_items(p) ==
    IF p.mode = "linear" THEN p.stages
    ELSE IF p.mode = "dag" THEN p.tasks
    ELSE <<>>

\* variant: recording a result always restarts the item
record_result_always(item, text, t) ==
    [item EXCEPT !.result = text, !.status = "in-progress", !.assigned_at = t]

\* variant: a pending item is put in progress without its start time
record_result_unstamped(item, text, t) ==
    IF item.status = "pending"
    THEN [item EXCEPT !.result = text, !.status = "in-progress"]
    ELSE [item EXCEPT !.result = text]

record_result(item, text, t) ==
    IF item.status = "pending"
    THEN [item EXCEPT !.result = text, !.status = "in-progress", !.assigned_at = t]
    ELSE [item EXCEPT !.result = text]

result_project(p, target_id, text, t) ==
    LET i == first_match(result_items(p), target_id) IN
    IF i = 0 THEN [proj |-> p, code |-> 1]
    ELSE IF p.mode = "linear"
         THEN [proj |-> [p EXCEPT !.stages[i] = record_result(@, text, t)], code |-> 0]
         ELSE [proj |-> [p EXCEPT !.tasks[i] = record_result(@, text, t)], code |-> 0]

\* variant: the completion timestamp survives a reset
reset_item_keep(item) ==
    [item EXCEPT !.status = "pending", !.result = "", !.assigned_at = <<>>]

reset_item(item) ==
    [item EXCEPT !.status = "pending", !.result = "",
                 !.assigned_at = <<>>, !.completed_at = <<>>]

reset_project(p) ==
    IF p.mode = "linear"
    THEN [p EXCEPT !.stages = [i \in 1..Len(p.stages) |-> reset_item(p.stages[i])],
                   !.current_stage = 0]
    ELSE IF p.mode = "dag"
    THEN [p EXCEPT !.tasks = [i \in 1..Len(p.tasks) |-> reset_item(p.tasks[i])]]
    ELSE [p EXCEPT !.rounds = <<>>]

\* cmd_add between load_project and save_project: the proposed record after the
\* append, and the cycles detect_cycles finds in it
add_project(p, task_id, deps) ==
    LET q == [p EXCEPT !.tasks = Append(@, make_task(task_id, split_ids(deps)))]
    IN [proj |-> q, cycles |-> detect_cycles(q)]

\* variant: rounds are numbered by the count after the append of the previous one
make_round_from_zero(n, t) ==
    [round_number |-> n - 1, phase |-> "initial", started_at |-> t, responses |-> <<>>]

\* new_round of "round start", n being len(rounds) + 1
make_round(n, t) ==
    [round_number |-> n, phase |-> "initial", started_at |-> t, responses |-> <<>>]

\* variant: a round action without any round is reported as done
no_round_silent(p, action) == [proj |-> p, code |-> 0]

\* "if not rounds": status returns quietly, the other actions exit with an error
no_round(p, action) == [proj |-> p, code |-> IF action = "status" THEN 0 ELSE 1]

\* variant: the round actions work on the first round
current_round_first(p) == 1

\* current_round = rounds[-1], as a position in the round sequence
current_round(p) == Len(p.rounds)

\* variant: the phase tag is the phase the round will have after its next advance
make_response_next_phase(round, debater_id, text, t) ==
    [debater_id |-> debater_id, content |-> text, submitted_at |-> t,
     phase |-> IF round.phase = "initial" THEN "cross-review" ELSE "synthesis"]

\* the response "round submit" builds
make_response(round, debater_id, text, t) ==
    [debater_id |-> debater_id, content |-> text, submitted_at |-> t, phase |-> round.phase]

\* cmd_round between load_project and save_project, per action
\* the two counts synthesize prints: the responses of the round tagged initial
\* and those tagged cross-review
synthesis_summary(round) ==
    [initial |-> Len(SelectSeq(round.responses, LAMBDA r : r.phase = "initial")),
     reviews |-> Len(SelectSeq(round.responses, LAMBDA r : r.phase = "cross-review"))]

\* what a round invocation reports; a successful synthesize also reports its summary
round_report(action, r) ==
    IF action = "synthesize" /\ r.code = 0 /\ Len(r.proj.rounds) > 0
    THEN [cmd |-> "round", code |-> r.code, note |-> <<action>>, cycles |-> <<>>,
          summary |-> synthesis_summary(r.proj.rounds[Len(r.proj.rounds)])]
    ELSE Report("round", r.code, <<action>>, <<>>)

round_project(p, action, debater_id, text, t) ==
    IF action = "start"
    THEN [proj |-> [p EXCEPT !.rounds = Append(@, make_round(Len(p.rounds) + 1, t))],
          code |-> 0]
    ELSE IF Len(p.rounds) = 0
    THEN no_round(p, action)
    ELSE IF action = "submit"
    THEN [proj |-> [p EXCEPT !.rounds[current_round(p)].responses =
                        Append(@, make_response(p.rounds[current_round(p)], debater_id, text, t))],
          code |-> 0]
    ELSE IF action = "cross-review"
    THEN [proj |-> [p EXCEPT !.rounds[current_round(p)].phase = "cross-review"], code |-> 0]
    ELSE IF action = "synthesize"
    THEN [proj |-> [p EXCEPT !.rounds[current_round(p)].phase = "synthesis"], code |-> 0]
    ELSE [proj |-> p, code |-> 0]

RoundActions == {"start", "submit", "cross-review", "synthesize", "status"}

----------------------------------------------------------------------------
(* The state machine: one action per command invocation                    *)

\* cmd_init: the state right after the project was created
\* the invocations that may overlap, and an invocation that has not started
Procs == {"p1", "p2"}

Idle == [pc |-> "idle"]

Init ==
    /\ \E mode \in Modes, pipeline \in TokenLists(StageIds) :
          /\ mode = "linear" => Len(split_ids(pipeline)) > 0
          /\ proj = init_project(mode, pipeline)
    /\ clock = 1
    /\ out = Report("init", 0, <<>>, <<>>)
    /\ run = [p \in Procs |-> Idle]

\* The handlers of add, add-debater, next, ready and round exit on a project of
\* another mode before they do anything: the mode test is the action's guard.
cmd_add(task_id, deps) ==
    /\ clock <= MaxTime
    /\ proj.mode = "dag"
    /\ clock' = clock + 1
    /\ UNCHANGED run
    /\ LET r == add_project(proj, task_id, deps) IN
          IF Len(r.cycles) > 0
          THEN /\ proj' = proj
               /\ out' = Report("add", 1, <<>>, r.cycles)
          ELSE /\ proj' = r.proj
               /\ out' = Report("add", 0, <<>>, <<>>)

cmd_add_debater(debater_id) ==
    /\ clock <= MaxTime
    /\ proj.mode = "debate"
    /\ clock' = clock + 1
    /\ UNCHANGED run
    /\ proj' = [proj EXCEPT !.debaters = Append(@, [id |-> debater_id, added_at |-> now])]
    /\ out' = Report("add-debater", 0, <<>>, <<>>)

cmd_next ==
    /\ clock <= MaxTime
    /\ proj.mode = "linear"
    /\ clock' = clock + 1
    /\ UNCHANGED run
    /\ proj' = proj
    /\ IF proj.current_stage >= Len(proj.stages)
       THEN out' = Report("next", 0, <<>>, <<>>)
       ELSE out' = Report("next", 0, <<proj.stages[proj.current_stage + 1].id>>, <<>>)

cmd_ready ==
    /\ clock <= MaxTime
    /\ proj.mode = "dag"
    /\ clock' = clock + 1
    /\ UNCHANGED run
    /\ proj' = proj
    /\ out' = Report("ready", 0, ids_of(compute_ready_tasks(proj)), <<>>)

cmd_update(target_id, status) ==
    /\ clock <= MaxTime
    /\ clock' = clock + 1
    /\ UNCHANGED run
    /\ LET r == update_project(proj, target_id, status, now) IN
          /\ proj' = IF r.code = 0 THEN r.proj ELSE proj
          /\ out' = Report("update", r.code, r.note, <<>>)

cmd_result(target_id, text) ==
    /\ clock <= MaxTime
    /\ clock' = clock + 1
    /\ UNCHANGED run
    /\ LET r == result_project(proj, target_id, text, now) IN
          /\ proj' = IF r.code = 0 THEN r.proj ELSE proj
          /\ out' = Report("result", r.code, <<>>, <<>>)

cmd_round(action, debater_id, text) ==
    /\ clock <= MaxTime
    /\ proj.mode = "debate"
    /\ clock' = clock + 1
    /\ UNCHANGED run
    /\ LET r == round_project(proj, action, debater_id, text, now) IN
          /\ proj' = IF r.code = 0 THEN r.proj ELSE proj
          /\ out' = round_report(action, r)

cmd_reset ==
    /\ clock <= MaxTime
    /\ clock' = clock + 1
    /\ UNCHANGED run
    /\ proj' = reset_project(proj)
    /\ out' = Report("reset", 0, <<>>, <<>>)

\* the ids a caller names: stage ids in a linear project, task ids otherwise
TargetIds == IF proj.mode = "linear" THEN StageIds ELSE TaskIds

Next ==
    \/ proj.mode = "dag" /\ \E task_id \in TaskIds, deps \in TokenLists(TaskIds) :
          cmd_add(task_id, deps)
    \/ proj.mode = "debate" /\ \E debater_id \in DebaterIds : cmd_add_debater(debater_id)
    \/ cmd_next
    \/ cmd_ready
    \/ \E target_id \in TargetIds, status \in StatusInputs : cmd_update(target_id, status)
    \/ \E target_id \in TargetIds, text \in Texts : cmd_result(target_id, text)
    \/ proj.mode = "debate" /\ \E action \in RoundActions, debater_id \in DebaterIds, text \in Texts :
          cmd_round(action, debater_id, text)
    \/ cmd_reset

Spec == Init /\ [][Next]_vars

----------------------------------------------------------------------------
(* A dag project that only grows: three task ids, at most one dependency   *)
(* named by each add.  The graphs on which the traversal of detect_cycles  *)
(* meets a third root after an early return need three distinct ids.       *)
GraphIds == {"a", "b", "c"}

GraphDeps == {<<>>} \cup {<<d>> : d \in GraphIds}

InitGraph ==
    /\ proj = init_project("dag", <<>>)
    /\ clock = 1
    /\ out = Report("init", 0, <<>>, <<>>)
    /\ run = [p \in Procs |-> Idle]

NextGraph == \E task_id \in GraphIds, deps \in GraphDeps : cmd_add(task_id, deps)

SpecGraph == InitGraph /\ [][NextGraph]_vars

----------------------------------------------------------------------------
(* Overlapping invocations.  Nothing locks the project file: an invocation *)
(* of update or result reads the whole record (load_project), changes its  *)
(* own copy and writes the whole copy back (save_project).  Each of these  *)
(* two file accesses is one step, so the steps of two invocations can      *)
(* interleave.                                                             *)
RaceCmds == {"update", "result"}

RaceArgs(cmd) == IF cmd = "update" THEN StatusInputs ELSE Texts

\* variant: the handler works on the record as stored when it saves
proj_local_reloaded(r, stored) == stored

\* proj = load_project(args.project): the handler's local copy of the record
proj_local(r, stored) == r.data

\* what the handler computes between load and save, run at second t
mutate(r, data, t) ==
    IF r.cmd = "update"
    THEN LET u == update_project(data, r.target_id, r.arg, <<t>>)
         IN [proj |-> u.proj, code |-> u.code, note |-> u.note]
    ELSE LET u == result_project(data, r.target_id, r.arg, <<t>>)
         IN [proj |-> u.proj, code |-> u.code, note |-> <<>>]

\* invocation p starts: it reads the stored record
load_project(p, cmd, target_id, arg) ==
    /\ run[p].pc = "idle"
    /\ run' = [run EXCEPT ![p] = [pc |-> "loaded", cmd |-> cmd, target_id |-> target_id,
                                  arg |-> arg, data |-> proj]]
    /\ UNCHANGED <<proj, clock, out>>

\* invocation p finishes: it changes its copy and, unless it exits with an error,
\* writes the copy over the stored record
save_project(p) ==
    /\ run[p].pc = "loaded"
    /\ clock <= MaxTime
    /\ clock' = clock + 1
    /\ LET r == mutate(run[p], proj_local(run[p], proj), clock) IN
          /\ proj' = IF r.code = 0 THEN r.proj ELSE proj
          /\ out' = Report(run[p].cmd, r.code, r.note, <<>>)
          /\ run' = [run EXCEPT ![p] = [pc |-> "done", cmd |-> run[p].cmd,
                                        target_id |-> run[p].target_id, arg |-> run[p].arg,
                                        data |-> run[p].data, code |-> r.code, at |-> clock]]

NextRace ==
    \/ \E p \in Procs, cmd \in RaceCmds, target_id \in TargetIds :
          \E arg \in RaceArgs(cmd) : load_project(p, cmd, target_id, arg)
    \/ \E p \in Procs : save_project(p)

SpecRace == Init /\ [][NextRace]_vars

----------------------------------------------------------------------------
(* Properties                                                              *)

\* the items a target id is looked up in
Items(p) ==
    IF p.mode = "linear" THEN p.stages ELSE IF p.mode = "dag" THEN p.tasks ELSE <<>>

\* position of the stage or task a call with this id addresses: the least position
\* carrying the id; 0 when no item carries it
Addressed(items, id) ==
    LET hits == {i \in DOMAIN items : items[i].id = id}
    IN IF hits = {} THEN 0 ELSE CHOOSE i \in hits : \A j \in hits : i <= j

\* a task is ready iff it is pending and each of its dependency ids is the id of
\* some task whose status is done
IsReady(tasks, t) ==
    /\ t.status = "pending"
    /\ \A k \in DOMAIN t.dependencies :
          \E j \in DOMAIN tasks : tasks[j].id = t.dependencies[k] /\ tasks[j].status = "done"

ReadyTasks(tasks) == SelectSeq(tasks, LAMBDA t : IsReady(tasks, t))

\* the dependency relation: an edge from each task's id to each of its dependency ids
Edges(tasks) ==
    UNION {{<<tasks[i].id, tasks[i].dependencies[k]>> : k \in DOMAIN tasks[i].dependencies} :
              i \in DOMAIN tasks}

\* the ids reachable from n along one or more edges
ReachableFrom(E, n) ==
    LET step(S) == {e[2] : e \in {x \in E : x[1] \in S}}
        F[k \in 0..Cardinality(E)] ==
            IF k = 0 THEN step({n}) ELSE F[k - 1] \cup step(F[k - 1])
    IN F[Cardinality(E)]

HasCycle(tasks) == \E e \in Edges(tasks) : e[1] \in ReachableFrom(Edges(tasks), e[1])

\* C1: in a dag project ready_tasks returns, in insertion order, exactly the
\* pending tasks all of whose dependency ids are ids of done tasks; a task with a
\* dependency id that no task carries is never returned.
C1_ReadyTasksExact ==
    proj.mode = "dag" =>
        /\ compute_ready_tasks(proj) = ReadyTasks(proj.tasks)
        /\ \A r \in DOMAIN compute_ready_tasks(proj) :
              \A k \in DOMAIN compute_ready_tasks(proj)[r].dependencies :
                 \E j \in DOMAIN proj.tasks :
                    proj.tasks[j].id = compute_ready_tasks(proj)[r].dependencies[k]

\* C1 witness: ready lists some pending task and leaves another pending task out
C1_Witness ==
    /\ proj.mode = "dag"
    /\ out.cmd = "ready"
    /\ Len(out.note) > 0
    /\ \E i \in DOMAIN proj.tasks :
          /\ proj.tasks[i].status = "pending"
          /\ \A r \in DOMAIN out.note : out.note[r] # proj.tasks[i].id

\* C2: detect_cycles returns the empty list exactly for the task lists whose
\* dependency relation has no directed cycle, on every task list add runs it on
\* (the stored tasks with the proposed task appended).
C2_DetectCyclesExact ==
    proj.mode = "dag" =>
        \A task_id \in TaskIds, deps \in TokenLists(TaskIds) :
            LET q == add_project(proj, task_id, deps).proj
            IN (detect_cycles(q) = <<>>) <=> ~HasCycle(q.tasks)

\* C3: an add whose task would create a cycle in the dependency relation is
\* rejected and the stored task sequence is the same afterwards.
C3_CyclicAddRejected ==
    [][\A task_id \in TaskIds, deps \in TokenLists(TaskIds) :
          (/\ cmd_add(task_id, deps)
           /\ ~HasCycle(proj.tasks)
           /\ HasCycle(Append(proj.tasks, make_task(task_id, split_ids(deps)))))
          => (out'.code = 1 /\ proj'.tasks = proj.tasks)]_vars

FiveStatuses == {"pending", "in-progress", "done", "failed", "skipped"}

\* C4: in a linear project, marking done the stage whose index is current_stage
\* moves current_stage up by exactly 1 (to the number of stages, with no advance
\* notification, when that stage is the last one; otherwise the notification names
\* the following stage); marking done a stage at another index, or setting any
\* other status, leaves current_stage as it was.
C4_CursorAdvance ==
    [][\A target_id \in TargetIds, status \in StatusInputs :
          (proj.mode = "linear" /\ cmd_update(target_id, status)) =>
             LET i == Addressed(proj.stages, target_id) IN
             IF i # 0 /\ status = "done" /\ i - 1 = proj.current_stage
             THEN /\ proj'.current_stage = proj.current_stage + 1
                  /\ i = Len(proj.stages) =>
                        (proj'.current_stage = Len(proj.stages) /\ out'.note = <<>>)
                  /\ i < Len(proj.stages) => out'.note = <<proj.stages[i + 1].id>>
             ELSE /\ proj'.current_stage = proj.current_stage
                  /\ out'.note = <<>>]_vars

\* C4 witness: the last of several stages was marked done at the cursor
C4_Witness ==
    /\ proj.mode = "linear"
    /\ out.cmd = "update" /\ out.code = 0 /\ out.note = <<>>
    /\ Len(proj.stages) >= 2
    /\ proj.current_stage = Len(proj.stages)
    /\ proj.stages[Len(proj.stages)].status = "done"
    /\ proj.stages[Len(proj.stages)].completed_at = <<clock - 1>>

\* C5 as stated: in a linear project current_stage never decreases, and it changes
\* only when the stage it points to is marked done.
C5_CursorNeverDecreases ==
    [][proj.mode = "linear" =>
          /\ proj'.current_stage >= proj.current_stage
          /\ proj'.current_stage # proj.current_stage =>
                \E target_id \in TargetIds :
                   /\ cmd_update(target_id, "done")
                   /\ Addressed(proj.stages, target_id) = proj.current_stage + 1]_vars

\* C5 amended: in a linear project current_stage changes only in two ways: it goes
\* up by exactly 1 when the stage it points to is marked done, and reset sets it
\* to 0; under set_status and record_result it never decreases.
C5_CursorForwardExceptReset ==
    [][proj.mode = "linear" =>
          \/ proj'.current_stage = proj.current_stage
          \/ /\ proj'.current_stage = proj.current_stage + 1
             /\ \E target_id \in TargetIds :
                   /\ cmd_update(target_id, "done")
                   /\ Addressed(proj.stages, target_id) = proj.current_stage + 1
          \/ /\ cmd_reset
             /\ proj'.current_stage = 0]_vars

\* C5 witness: the cursor has moved past two stages marked done in turn
C5_Witness ==
    /\ proj.mode = "linear"
    /\ out.cmd = "update" /\ out.code = 0
    /\ proj.current_stage = 2
    /\ proj.stages[1].status = "done" /\ proj.stages[2].status = "done"
    /\ proj.stages[2].completed_at = <<clock - 1>>

\* C6: a set_status call whose status is none of the five valid statuses, or whose
\* target id matches no stage or task of the project, leaves the stored project
\* record unchanged.
C6_FailedUpdateNoChange ==
    [][\A target_id \in TargetIds, status \in StatusInputs :
          (/\ cmd_update(target_id, status)
           /\ status \notin FiveStatuses \/ Addressed(Items(proj), target_id) = 0)
          => (proj' = proj /\ out'.code = 1)]_vars

\* C6 witness: an update failed on a project that already holds a finished item
C6_Witness ==
    /\ out.cmd = "update" /\ out.code = 1
    /\ \E i \in DOMAIN Items(proj) :
          Items(proj)[i].status = "done" /\ Items(proj)[i].completed_at # <<>>

\* C7: set_status to in-progress writes the current time into assigned_at of the
\* addressed stage or task, over any earlier value, and leaves completed_at;
\* set_status to done, failed or skipped writes the current time into
\* completed_at and leaves assigned_at; set_status to pending changes neither.
C7_Timestamps ==
    [][\A target_id \in TargetIds, status \in FiveStatuses :
          (/\ cmd_update(target_id, status)
           /\ Addressed(Items(proj), target_id) # 0)
          => LET i == Addressed(Items(proj), target_id)
                 old == Items(proj)[i]
                 new == Items(proj')[i]
             IN /\ new.status = status
                /\ status = "in-progress" =>
                      (new.assigned_at = <<clock>> /\ new.completed_at = old.completed_at)
                /\ status \in {"done", "failed", "skipped"} =>
                      (new.completed_at = <<clock>> /\ new.assigned_at = old.assigned_at)
                /\ status = "pending" =>
                      (new.assigned_at = old.assigned_at /\ new.completed_at = old.completed_at)]_vars

\* C7 witness: an item finished earlier was just put back in progress: assigned_at
\* is the time of that call and completed_at still the earlier time
C7_Witness ==
    /\ out.cmd = "update" /\ out.code = 0
    /\ \E i \in DOMAIN Items(proj) :
          /\ Items(proj)[i].status = "in-progress"
          /\ Items(proj)[i].assigned_at = <<clock - 1>>
          /\ Items(proj)[i].completed_at # <<>>
          /\ Items(proj)[i].completed_at # Items(proj)[i].assigned_at

C9_RecordResult ==
    [][\A target_id \in TargetIds, text \in Texts :
          cmd_result(target_id, text) =>
             LET i == Addressed(Items(proj), target_id) IN
             IF i = 0 THEN proj' = proj /\ out'.code = 1
             ELSE LET old == Items(proj)[i]
                      new == Items(proj')[i]
                  IN /\ out'.code = 0
                     /\ new.result = text
                     /\ new.completed_at = old.completed_at
                     /\ old.status = "pending" =>
                           (new.status = "in-progress" /\ new.assigned_at = <<clock>>)
                     /\ old.status # "pending" =>
                           (new.status = old.status /\ new.assigned_at = old.assigned_at)]_vars

\* C9 witness: a result was recorded on an item that was already done
C9_Witness ==
    /\ out.cmd = "result" /\ out.code = 0
    /\ \E i \in DOMAIN Items(proj) :
          /\ Items(proj)[i].result \in Texts
          /\ Items(proj)[i].status = "done"
          /\ Items(proj)[i].assigned_at = <<>>

\* C10: after reset every stage or task is pending with empty result, assigned_at
\* and completed_at, the ids and each task's dependency list are as before, and a
\* linear project's current_stage is 0; a debate project has no rounds and the
\* debaters it had before.
C10_Reset ==
    [][cmd_reset =>
          /\ proj'.mode = proj.mode
          /\ proj.mode \in {"linear", "dag"} =>
                /\ ids_of(Items(proj')) = ids_of(Items(proj))
                /\ \A i \in DOMAIN Items(proj') :
                      /\ Items(proj')[i].status = "pending"
                      /\ Items(proj')[i].result = ""
                      /\ Items(proj')[i].assigned_at = <<>>
                      /\ Items(proj')[i].completed_at = <<>>
          /\ proj.mode = "linear" => proj'.current_stage = 0
          /\ proj.mode = "dag" =>
                \A i \in DOMAIN proj.tasks :
                   proj'.tasks[i].dependencies = proj.tasks[i].dependencies
          /\ proj.mode = "debate" =>
                (proj'.rounds = <<>> /\ proj'.debaters = proj.debaters)]_vars

\* C10 witness: a reset ran on a dag project that holds a dependency, three
\* invocations after its creation
C10_Witness ==
    /\ out.cmd = "reset"
    /\ proj.mode = "dag"
    /\ clock >= 4
    /\ \E i \in DOMAIN proj.tasks : Len(proj.tasks[i].dependencies) > 0
    /\ \A i \in DOMAIN proj.tasks : proj.tasks[i].status = "pending"

\* the order of the phases of a round
PhaseRank(phase) ==
    IF phase = "initial" THEN 1 ELSE IF phase = "cross-review" THEN 2 ELSE 3

PhaseAdvances == {"submit", "cross-review", "synthesize"}

\* C11: over the debate operations start, submit, cross-review, synthesize and
\* status, the phase of a round never changes from a later phase to an earlier one.
C11_PhaseForwardOnly ==
    [][\A action \in RoundActions, debater_id \in DebaterIds, text \in Texts :
          cmd_round(action, debater_id, text) =>
             \A i \in DOMAIN proj.rounds :
                PhaseRank(proj'.rounds[i].phase) >= PhaseRank(proj.rounds[i].phase)]_vars

\* C12: in a debate project a round start always succeeds, whatever the phase of
\* the previous round, and appends a round with phase initial, no responses and
\* round number = number of rounds before + 1; hence the i-th round always has
\* round number i.
C12_StartRound ==
    /\ [](proj.mode = "debate" =>
            /\ \A i \in DOMAIN proj.rounds : proj.rounds[i].round_number = i
            /\ clock <= MaxTime =>
                  ENABLED (\E debater_id \in DebaterIds, text \in Texts :
                              cmd_round("start", debater_id, text)))
    /\ [][\A debater_id \in DebaterIds, text \in Texts :
             cmd_round("start", debater_id, text) =>
                /\ out'.code = 0
                /\ proj'.rounds =
                      Append(proj.rounds,
                             [round_number |-> Len(proj.rounds) + 1, phase |-> "initial",
                              started_at |-> <<clock>>, responses |-> <<>>])
                /\ proj'.debaters = proj.debaters]_vars

\* C12 witness: a second round was started while the first was in synthesis
C12_Witness ==
    /\ proj.mode = "debate"
    /\ out.cmd = "round" /\ out.note = <<"start">>
    /\ Len(proj.rounds) = 2
    /\ proj.rounds[1].phase = "synthesis"
    /\ proj.rounds[2].round_number = 2 /\ proj.rounds[2].phase = "initial"

\* C13: in a debate project without rounds, submit, cross-review and synthesize
\* each fail and leave the stored record (debaters, rounds, question) unchanged.
C13_NoRoundFails ==
    [][\A action \in PhaseAdvances, debater_id \in DebaterIds, text \in Texts :
          (cmd_round(action, debater_id, text) /\ Len(proj.rounds) = 0)
          => (out'.code = 1 /\ proj' = proj)]_vars

\* C13 witness: a submit failed on a project with a debater and no round
C13_Witness ==
    /\ proj.mode = "debate"
    /\ out.cmd = "round" /\ out.code = 1 /\ out.note = <<"submit">>
    /\ Len(proj.debaters) > 0
    /\ proj.rounds = <<>>

\* C14: submit appends to the most recent round one response tagged with the
\* phase that round has at that moment, and no operation changes a response that
\* stays stored (its phase tag, content and debater id), a later phase advance of
\* its round included.
C14_ResponseTagCaptured ==
    [][proj.mode = "debate" =>
          /\ \A i \in DOMAIN proj.rounds \cap DOMAIN proj'.rounds :
                \A j \in DOMAIN proj.rounds[i].responses \cap DOMAIN proj'.rounds[i].responses :
                   proj'.rounds[i].responses[j] = proj.rounds[i].responses[j]
          /\ \A debater_id \in DebaterIds, text \in Texts :
                (cmd_round("submit", debater_id, text) /\ Len(proj.rounds) > 0) =>
                   LET n == Len(proj.rounds) IN
                   /\ Len(proj'.rounds) = n
                   /\ proj'.rounds[n].phase = proj.rounds[n].phase
                   /\ Len(proj'.rounds[n].responses) = Len(proj.rounds[n].responses) + 1
                   /\ LET r == proj'.rounds[n].responses[Len(proj'.rounds[n].responses)]
                      IN /\ r.phase = proj.rounds[n].phase
                         /\ r.debater_id = debater_id
                         /\ r.content = text]_vars

\* C14 witness: a response submitted in the initial phase keeps its tag after the
\* round advanced to cross-review
C14_Witness ==
    /\ proj.mode = "debate"
    /\ out.cmd = "round" /\ out.note = <<"cross-review">> /\ out.code = 0
    /\ Len(proj.rounds) = 1
    /\ proj.rounds[1].phase = "cross-review"
    /\ Len(proj.rounds[1].responses) = 1
    /\ proj.rounds[1].responses[1].phase = "initial"

\* C15: once a later round exists, submit, cross-review and synthesize change
\* neither the phase nor the responses of any earlier round.
C15_EarlierRoundsFrozen ==
    [][\A action \in PhaseAdvances, debater_id \in DebaterIds, text \in Texts :
          cmd_round(action, debater_id, text) =>
             \A i \in 1..(Len(proj.rounds) - 1) :
                /\ proj'.rounds[i].phase = proj.rounds[i].phase
                /\ proj'.rounds[i].responses = proj.rounds[i].responses]_vars

\* C15 witness: with two rounds, a response went to the second and the first is
\* as it was started
C15_Witness ==
    /\ proj.mode = "debate"
    /\ out.cmd = "round" /\ out.note = <<"submit">> /\ out.code = 0
    /\ Len(proj.rounds) = 2
    /\ proj.rounds[1].phase = "initial" /\ proj.rounds[1].responses = <<>>
    /\ Len(proj.rounds[2].responses) = 1

\* C16: task ids are unique within a dag project: no two tasks of the stored task
\* sequence carry the same id.
C16_TaskIdsUnique ==
    proj.mode = "dag" =>
        \A i, j \in DOMAIN proj.tasks : i # j => proj.tasks[i].id # proj.tasks[j].id

\* C17: in every stored state of a dag project the dependency relation over its
\* tasks has no directed cycle.
C17_StoredGraphAcyclic == proj.mode = "dag" => ~HasCycle(proj.tasks)

\* C18: invocations are unlocked load-mutate-save runs over the whole record, so
\* the stored record is always the whole in-memory record of the invocation that
\* saved last, computed from what that invocation loaded: whatever another
\* invocation saved between that load and that save is lost.
Saved(p) == run[p].pc = "done" /\ run[p].code = 0

SavedLast(p) == Saved(p) /\ \A q \in Procs \ {p} : Saved(q) => run[q].at < run[p].at

C18_LastSaveWins ==
    \A p \in Procs : SavedLast(p) => proj = mutate(run[p], run[p].data, run[p].at).proj

\* a lost update: both invocations reported success on different stages, the one
\* that saved first marked its stage in-progress, the one that saved last had
\* loaded before that save, and the stored stage is still pending
C18_Witness ==
    \E p, q \in Procs :
        /\ p # q /\ Saved(p) /\ SavedLast(q)
        /\ run[p].cmd = "update" /\ run[p].arg = "in-progress"
        /\ run[q].cmd = "result"
        /\ run[p].target_id # run[q].target_id
        /\ run[p].data = run[q].data
        /\ Addressed(Items(proj), run[p].target_id) > 0
        /\ Items(proj)[Addressed(Items(proj), run[p].target_id)].status = "pending"

\* C19: every edge detect_cycles returns is a back-edge of the dependency relation
\* lying on a directed cycle: it is an edge of the proposed graph and its source
\* is reachable from its target.  Stated for the proposals of an add whose task
\* ids are pairwise distinct, stored tasks and proposed task together.
DistinctIds(tasks) == \A i, j \in DOMAIN tasks : i # j => tasks[i].id # tasks[j].id

OnCycle(tasks, e) ==
    /\ e \in Edges(tasks)
    /\ e[1] = e[2] \/ e[1] \in ReachableFrom(Edges(tasks), e[2])

C19_ReportedEdgesOnCycle ==
    \A task_id \in GraphIds, deps \in GraphDeps :
        LET q == add_project(proj, task_id, deps).proj
            cycles == detect_cycles(q)
        IN DistinctIds(q.tasks) =>
              \A k \in DOMAIN cycles : OnCycle(q.tasks, cycles[k])

\* C20: in a linear project the stage next returns (the one at index
\* current_stage, while current_stage is less than the number of stages) is not
\* already done, and when every stage is done next reports that all stages are
\* complete (current_stage is not less than the number of stages).
C20_NextStageNotDone ==
    proj.mode = "linear" =>
        /\ proj.current_stage < Len(proj.stages) =>
              proj.stages[proj.current_stage + 1].status # "done"
        /\ (\A i \in DOMAIN proj.stages : proj.stages[i].status = "done") =>
              proj.current_stage >= Len(proj.stages)

\* C21: the summary of a synthesize partitions the responses of the current round
\* by their phase tag into initial and cross-review, so the two reported counts
\* sum to the number of responses of the round: this holds of the summary the
\* last synthesize reported, and of the summary a synthesize run on the stored
\* record reports.
CountsCoverRound(summary, round) ==
    summary.initial + summary.reviews = Len(round.responses)

C21_SummaryPartition ==
    proj.mode = "debate" =>
        /\ (out.cmd = "round" /\ out.note = <<"synthesize">> /\ out.code = 0) =>
              CountsCoverRound(out.summary, proj.rounds[Len(proj.rounds)])
        /\ \A debater_id \in DebaterIds, text \in Texts :
              LET r == round_project(proj, "synthesize", debater_id, text, now)
              IN r.code = 0 =>
                    CountsCoverRound(round_report("synthesize", r).summary,
                                     r.proj.rounds[Len(r.proj.rounds)])

\* C22: dispatch progress in a dag project.  In a state where every dependency id
\* names an existing task and every task is pending or done, ready_tasks is empty
\* only if all tasks are done; and marking a task that ready_tasks returned done
\* (update with its id and status done) succeeds and leaves that task done, so
\* marking the returned tasks done finishes the project after finitely many steps.
Dispatchable(p) ==
    /\ p.mode = "dag"
    /\ \A i \in DOMAIN p.tasks :
          /\ p.tasks[i].status \in {"pending", "done"}
          /\ \A k \in DOMAIN p.tasks[i].dependencies :
                \E j \in DOMAIN p.tasks : p.tasks[j].id = p.tasks[i].dependencies[k]

AllDone(p) == \A i \in DOMAIN p.tasks : p.tasks[i].status = "done"

Returned(p) ==
    {i \in DOMAIN p.tasks :
        \E r \in DOMAIN compute_ready_tasks(p) : compute_ready_tasks(p)[r] = p.tasks[i]}

ReadyEmptyOnlyIfDone == Dispatchable(proj) => (compute_ready_tasks(proj) = <<>> => AllDone(proj))

MarkedDoneIsDone ==
    Dispatchable(proj) =>
        \A i \in Returned(proj) :
            LET r == update_project(proj, proj.tasks[i].id, "done", now)
            IN /\ r.code = 0
               /\ r.proj.tasks[i].status = "done"
               /\ Dispatchable(r.proj)

C22_DispatchProgress == ReadyEmptyOnlyIfDone /\ MarkedDoneIsDone

\* C23: status and timestamps agree: a stage or task that is in-progress has a
\* non-empty assigned_at, and one that is done, failed or skipped has a non-empty
\* completed_at.
C23_StatusTimestamps ==
    \A i \in DOMAIN Items(proj) :
        LET item == Items(proj)[i] IN
        /\ item.status = "in-progress" => item.assigned_at # <<>>
        /\ item.status \in {"done", "failed", "skipped"} => item.completed_at # <<>>

\* a result recorded on a pending item put it in progress, and another item was
\* then marked skipped
C23_Witness ==
    /\ out.cmd = "update" /\ out.code = 0
    /\ \E i, j \in DOMAIN Items(proj) :
          /\ Items(proj)[i].status = "in-progress" /\ Items(proj)[i].result # ""
          /\ Items(proj)[i].assigned_at # <<>> /\ Items(proj)[i].completed_at = <<>>
          /\ Items(proj)[j].status = "skipped" /\ Items(proj)[j].completed_at = <<clock - 1>>

====
